---------------------------- MODULE Spec2Model ----------------------------
(* EDmin API (src/main.py, src/schemas.py): the create/list route pairs,    *)
(* the diagnostic routes, the entity schemas they validate against, and the *)
(* persistence gateway (database.create_document / get_documents / db) that *)
(* main.py imports.  The gateway's module is not among the source files, so *)
(* its three definitions are modelled from the specification's section 4.2. *)
EXTENDS Integers, Sequences, FiniteSets, TLC

VARIABLES focus, db, store, nextId, issued, last, workers

vars == <<focus, db, store, nextId, issued, last, workers>>

(***************************************************************************)
(* Bounds of the model.                                                    *)
(***************************************************************************)
\* documents the store may hold (creates are refused by the guard beyond it)
MaxDocs == 2

\* documents already in the focus collection when concurrent workers start
MaxPre == 1

(***************************************************************************)
(* Values.  Every JSON / Python / store value is a tagged pair, so that a  *)
(* string and a date holding the same text are different values, as they   *)
(* are in Python and in the document store.                                *)
(***************************************************************************)
Str(s) == [t |-> "str", v |-> s]
Num(s) == [t |-> "num", v |-> s]
Float(s) == [t |-> "float", v |-> s]
Bool(s) == [t |-> "bool", v |-> s]
Date(s) == [t |-> "date", v |-> s]
DateTime(s) == [t |-> "datetime", v |-> s]
List(s) == [t |-> "list", v |-> s]
Dict(s) == [t |-> "dict", v |-> s]
Oid(n) == [t |-> "oid", v |-> ToString(n)]
None == [t |-> "none", v |-> ""]
Invalid == [t |-> "invalid", v |-> ""]

Empty == [k \in {} |-> None]

\* Python truthiness of an Optional[str] argument: None and "" are falsy.
Truthy(x) == x.t = "str" /\ x.v # ""

(***************************************************************************)
(* Entity schema registry (src/schemas.py).                                *)
(***************************************************************************)
Req(n, ty) == [name |-> n, type |-> ty, required |-> TRUE, optional |-> FALSE, default |-> None]
Opt(n, ty) == [name |-> n, type |-> ty, required |-> FALSE, optional |-> TRUE, default |-> None]
Def(n, ty, d) == [name |-> n, type |-> ty, required |-> FALSE, optional |-> FALSE, default |-> d]
OptDef(n, ty, d) == [name |-> n, type |-> ty, required |-> FALSE, optional |-> TRUE, default |-> d]

Tenant ==
  { Req("name", "str"), Req("code", "str"), Opt("address", "str"),
    Opt("contact_email", "email"), Opt("contact_phone", "str"),
    OptDef("timezone", "str", Str("UTC")), Def("status", "str", Str("active")) }

User ==
  { Req("tenant_id", "str"), Req("name", "str"), Req("email", "email"),
    Req("role", "str"), Opt("password_hash", "str"),
    Def("is_active", "bool", Bool("true")) }

Teacher ==
  { Req("tenant_id", "str"), Opt("user_id", "str"), Opt("employee_id", "str"),
    Def("subjects", "list", List("")), Opt("hire_date", "date"),
    Def("status", "str", Str("active")) }

Parent ==
  { Req("tenant_id", "str"), Opt("user_id", "str"),
    Def("children_ids", "list", List("")) }

Student ==
  { Req("tenant_id", "str"), Opt("user_id", "str"), Req("student_number", "str"),
    Req("first_name", "str"), Req("last_name", "str"), Req("grade_level", "str"),
    Opt("dob", "date"), Opt("guardian_contact", "str"), Opt("address", "str"),
    Def("status", "str", Str("active")) }

Class ==
  { Req("tenant_id", "str"), Req("name", "str"), Req("code", "str"),
    Req("subject", "str"), Req("grade_level", "str"), Opt("teacher_id", "str"),
    Def("schedule", "dict", Dict("")) }

Enrollment ==
  { Req("tenant_id", "str"), Req("class_id", "str"), Req("student_id", "str"),
    Opt("enrollment_date", "date"), Def("status", "str", Str("enrolled")) }

Attendance ==
  { Req("tenant_id", "str"), Req("class_id", "str"), Req("student_id", "str"),
    Req("date", "date"), Req("status", "str"), Opt("method", "str") }

GradeRecord ==
  { Req("tenant_id", "str"), Req("student_id", "str"), Req("class_id", "str"),
    Req("term", "str"), Def("scores", "dict", Dict("")), Opt("remarks", "str") }

Invoice ==
  { Req("tenant_id", "str"), Req("student_id", "str"), Req("title", "str"),
    Req("amount", "float"), Opt("due_date", "date"),
    Def("status", "str", Str("unpaid")), Def("meta", "dict", Dict("")) }

Payment ==
  { Req("tenant_id", "str"), Req("invoice_id", "str"), Req("method", "str"),
    Req("amount", "float"), Opt("reference", "str"),
    Def("status", "str", Str("success")) }

Announcement ==
  { Req("tenant_id", "str"), Req("title", "str"), Req("message", "str"),
    Def("audience", "list", List("students,teachers,parents")),
    Opt("starts_at", "datetime"), Opt("ends_at", "datetime") }

Notification ==
  { Req("tenant_id", "str"), Req("user_id", "str"), Req("title", "str"),
    Req("message", "str"), Def("type", "str", Str("info")),
    Def("is_read", "bool", Bool("false")) }

Resource ==
  { Req("tenant_id", "str"), Req("title", "str"), Req("subject", "str"),
    Req("grade_level", "str"), Opt("difficulty", "str"), Opt("url", "str"),
    Def("tags", "list", List("")) }

Assignment ==
  { Req("tenant_id", "str"), Req("class_id", "str"), Req("title", "str"),
    Opt("description", "str"), Opt("due_date", "datetime") }

Quiz ==
  { Req("tenant_id", "str"), Req("class_id", "str"), Req("title", "str"),
    Def("questions", "list", List("")) }

QuizSubmission ==
  { Req("tenant_id", "str"), Req("quiz_id", "str"), Req("student_id", "str"),
    Def("answers", "list", List("")), Opt("score", "float") }

ActivityLog ==
  { Req("tenant_id", "str"), Opt("user_id", "str"), Req("action", "str"),
    Req("entity", "str"), Opt("entity_id", "str"), Def("meta", "dict", Dict("")) }

\* The model classes main.py imports, by class name.
Models ==
  [ Tenant |-> Tenant, User |-> User, Teacher |-> Teacher, Parent |-> Parent,
    Student |-> Student, Class |-> Class, Enrollment |-> Enrollment,
    Attendance |-> Attendance, GradeRecord |-> GradeRecord, Invoice |-> Invoice,
    Payment |-> Payment, Announcement |-> Announcement,
    Notification |-> Notification, Resource |-> Resource,
    Assignment |-> Assignment, Quiz |-> Quiz, QuizSubmission |-> QuizSubmission,
    ActivityLog |-> ActivityLog ]

Kinds == DOMAIN Models

FieldNames == [K \in Kinds |-> {f.name : f \in Models[K]}]

RequiredFields == [K \in Kinds |-> {f.name : f \in {g \in Models[K] : g.required}}]

FieldOf(K, n) == CHOOSE f \in Models[K] : f.name = n

(***************************************************************************)
(* Request-body validation: what FastAPI does with `payload: <Model>`      *)
(* before the handler body runs.                                           *)
(***************************************************************************)
\* date strings pydantic parses as a date
IsoDates == {"2024-01-01", "2024-01-02"}

\* strings EmailStr accepts
ValidEmails == {"a@x.io"}

\* One JSON value converted to a field's declared type; Invalid on a mismatch.
Coerce(f, raw) ==
  IF raw.t = "none" THEN (IF f.optional THEN None ELSE Invalid)
  ELSE CASE f.type = "str" -> IF raw.t = "str" THEN raw ELSE Invalid
         [] f.type = "email" -> IF raw.t = "str" /\ raw.v \in ValidEmails THEN raw ELSE Invalid
         [] f.type = "date" -> IF raw.t = "str" /\ raw.v \in IsoDates THEN Date(raw.v) ELSE Invalid
         [] f.type = "datetime" -> IF raw.t = "str" THEN DateTime(raw.v) ELSE Invalid
         [] f.type = "float" -> IF raw.t = "num" THEN Float(raw.v) ELSE Invalid
         [] f.type = "bool" -> IF raw.t = "bool" THEN raw ELSE Invalid
         [] f.type = "list" -> IF raw.t = "list" THEN raw ELSE Invalid
         [] f.type = "dict" -> IF raw.t = "dict" THEN raw ELSE Invalid

\* The fields of a body that fail validation: a required field that is
\* missing, or a supplied field of the wrong type.  Unknown fields are ignored.
BadFields(K, body) ==
  {f.name : f \in {g \in Models[K] :
      IF g.name \in DOMAIN body THEN Coerce(g, body[g.name]) = Invalid
      ELSE g.required}}

validate_only_first(K, body) ==
  LET bad == {n \in BadFields(K, body) : n = "tenant_id" \/ n = "name"}
  IN  [ok |-> bad = {}, errors |-> bad,
       model |-> [n \in FieldNames[K] |->
                    IF n \in DOMAIN body THEN Coerce(FieldOf(K, n), body[n])
                    ELSE FieldOf(K, n).default]]

\* The validated model instance, or the validation error.
validate(K, body) ==
  LET bad == BadFields(K, body)
  IN  [ok |-> bad = {}, errors |-> bad,
       model |-> [n \in FieldNames[K] |->
                    IF n \in DOMAIN body THEN Coerce(FieldOf(K, n), body[n])
                    ELSE FieldOf(K, n).default]]


(***************************************************************************)
(* collection_name (src/main.py): the class's __name__, lower-cased.       *)
(* Names are sequences of characters so that lower() is computed.          *)
(***************************************************************************)
ClassName ==
  [ Tenant |-> <<"T","e","n","a","n","t">>,
    User |-> <<"U","s","e","r">>,
    Teacher |-> <<"T","e","a","c","h","e","r">>,
    Parent |-> <<"P","a","r","e","n","t">>,
    Student |-> <<"S","t","u","d","e","n","t">>,
    Class |-> <<"C","l","a","s","s">>,
    Enrollment |-> <<"E","n","r","o","l","l","m","e","n","t">>,
    Attendance |-> <<"A","t","t","e","n","d","a","n","c","e">>,
    GradeRecord |-> <<"G","r","a","d","e","R","e","c","o","r","d">>,
    Invoice |-> <<"I","n","v","o","i","c","e">>,
    Payment |-> <<"P","a","y","m","e","n","t">>,
    Announcement |-> <<"A","n","n","o","u","n","c","e","m","e","n","t">>,
    Notification |-> <<"N","o","t","i","f","i","c","a","t","i","o","n">>,
    Resource |-> <<"R","e","s","o","u","r","c","e">>,
    Assignment |-> <<"A","s","s","i","g","n","m","e","n","t">>,
    Quiz |-> <<"Q","u","i","z">>,
    QuizSubmission |-> <<"Q","u","i","z","S","u","b","m","i","s","s","i","o","n">>,
    ActivityLog |-> <<"A","c","t","i","v","i","t","y","L","o","g">> ]

UpperAlpha ==
  <<"A","B","C","D","E","F","G","H","I","J","K","L","M",
    "N","O","P","Q","R","S","T","U","V","W","X","Y","Z">>

LowerAlpha ==
  <<"a","b","c","d","e","f","g","h","i","j","k","l","m",
    "n","o","p","q","r","s","t","u","v","w","x","y","z">>

\* str.lower() on one character
LowerChar(c) ==
  IF \E i \in DOMAIN UpperAlpha : UpperAlpha[i] = c
  THEN LowerAlpha[CHOOSE i \in DOMAIN UpperAlpha : UpperAlpha[i] = c]
  ELSE c

\* str.lower()
Lower(s) == [i \in DOMAIN s |-> LowerChar(s[i])]

collection_name(model_cls) == Lower(ClassName[model_cls])

\* collection_name, tabulated once over the imported classes
CollectionOf == [K \in Kinds |-> collection_name(K)]

Collections == {CollectionOf[K] : K \in Kinds}

(***************************************************************************)
(* The create/list route pairs of src/main.py.                             *)
(***************************************************************************)
\* the annotation of each create handler's `payload` parameter
PayloadModel ==
  [ tenants |-> "Tenant", users |-> "User", students |-> "Student",
    classes |-> "Class", enrollments |-> "Enrollment",
    attendance |-> "Attendance", grades |-> "GradeRecord",
    invoices |-> "Invoice", payments |-> "Payment",
    announcements |-> "Announcement", resources |-> "Resource",
    assignments |-> "Assignment", quizzes |-> "Quiz",
    quiz_submissions |-> "QuizSubmission", activity |-> "ActivityLog" ]

Routes == DOMAIN PayloadModel

CreateModelMixedUp ==
  [PayloadModel EXCEPT !["quiz_submissions"] = "Quiz", !["grades"] = "Invoice"]

\* the class each create handler hands to collection_name
CreateModel ==
  [ tenants |-> "Tenant", users |-> "User", students |-> "Student",
    classes |-> "Class", enrollments |-> "Enrollment",
    attendance |-> "Attendance", grades |-> "GradeRecord",
    invoices |-> "Invoice", payments |-> "Payment",
    announcements |-> "Announcement", resources |-> "Resource",
    assignments |-> "Assignment", quizzes |-> "Quiz",
    quiz_submissions |-> "QuizSubmission", activity |-> "ActivityLog" ]

ListModelMixedUp ==
  [PayloadModel EXCEPT !["quiz_submissions"] = "Quiz", !["grades"] = "Invoice",
                       !["tenants"] = "User", !["users"] = "Tenant"]

\* the class each list handler hands to collection_name
ListModel ==
  [ tenants |-> "Tenant", users |-> "User", students |-> "Student",
    classes |-> "Class", enrollments |-> "Enrollment",
    attendance |-> "Attendance", grades |-> "GradeRecord",
    invoices |-> "Invoice", payments |-> "Payment",
    announcements |-> "Announcement", resources |-> "Resource",
    assignments |-> "Assignment", quizzes |-> "Quiz",
    quiz_submissions |-> "QuizSubmission", activity |-> "ActivityLog" ]

\* the query parameters each list handler declares
AllowList ==
  [ tenants |-> {},
    users |-> {"tenant_id"},
    students |-> {"tenant_id", "grade_level"},
    classes |-> {"tenant_id"},
    enrollments |-> {"tenant_id", "class_id", "student_id"},
    attendance |-> {"tenant_id", "class_id", "student_id", "date"},
    grades |-> {"tenant_id", "student_id", "class_id", "term"},
    invoices |-> {"tenant_id", "student_id", "status"},
    payments |-> {"tenant_id", "invoice_id", "status"},
    announcements |-> {"tenant_id"},
    resources |-> {"tenant_id", "subject", "grade_level"},
    assignments |-> {"tenant_id", "class_id"},
    quizzes |-> {"tenant_id", "class_id"},
    quiz_submissions |-> {"tenant_id", "quiz_id", "student_id"},
    activity |-> {"tenant_id", "user_id", "action"} ]

\* FastAPI binds each declared parameter to the query string's value, or to
\* its default None; parameters the handler does not declare are dropped.
BindArgs(r, q) ==
  [p \in AllowList[r] |-> IF p \in DOMAIN q THEN Str(q[p]) ELSE None]

\* filt[k] = x
SetKey(filt, k, x) == (k :> x) @@ filt

\* if x: filt[k] = x
SetIf(filt, k, x) == IF Truthy(x) THEN SetKey(filt, k, x) ELSE filt

\* filt = {"tenant_id": tenant_id} if tenant_id else {}
TenantOnly(a) == IF Truthy(a.tenant_id) THEN SetKey(Empty, "tenant_id", a.tenant_id) ELSE Empty

list_users_filt(a) == TenantOnly(a)

list_students_filt(a) ==
  SetIf(SetIf(Empty, "tenant_id", a.tenant_id), "grade_level", a.grade_level)

list_classes_filt(a) == TenantOnly(a)

list_enrollments_filt(a) ==
  SetIf(SetIf(SetIf(Empty, "tenant_id", a.tenant_id), "class_id", a.class_id),
        "student_id", a.student_id)

list_attendance_filt(a) ==
  SetIf(SetIf(SetIf(SetIf(Empty, "tenant_id", a.tenant_id), "class_id", a.class_id),
              "student_id", a.student_id), "date", a.date)

list_grades_filt(a) ==
  SetIf(SetIf(SetIf(SetIf(Empty, "tenant_id", a.tenant_id), "student_id", a.student_id),
              "class_id", a.class_id), "term", a.term)

list_invoices_filt(a) ==
  SetIf(SetIf(SetIf(Empty, "tenant_id", a.tenant_id), "student_id", a.student_id),
        "status", a.status)

list_payments_filt(a) ==
  SetIf(SetIf(SetIf(Empty, "tenant_id", a.tenant_id), "invoice_id", a.invoice_id),
        "status", a.status)

list_announcements_filt(a) == TenantOnly(a)

list_resources_filt(a) ==
  SetIf(SetIf(SetIf(Empty, "tenant_id", a.tenant_id), "subject", a.subject),
        "grade_level", a.grade_level)

list_assignments_filt(a) ==
  SetIf(SetIf(Empty, "tenant_id", a.tenant_id), "class_id", a.class_id)

list_quizzes_filt(a) ==
  SetIf(SetIf(Empty, "tenant_id", a.tenant_id), "class_id", a.class_id)

list_quiz_submissions_filt(a) ==
  SetIf(SetIf(SetIf(Empty, "tenant_id", a.tenant_id), "quiz_id", a.quiz_id),
        "student_id", a.student_id)

list_activity_filt(a) ==
  SetIf(SetIf(SetIf(Empty, "tenant_id", a.tenant_id), "user_id", a.user_id),
        "action", a.action)

\* a filter that tests `is not None` where the code tests truthiness
build_filter_sloppy(r, a) ==
  LET given == {p \in AllowList[r] : a[p].t = "str"}
  IN  [p \in given |-> a[p]]

\* the `filt` each list handler builds from its bound arguments
build_filter(r, a) ==
  CASE r = "tenants" -> Empty
    [] r = "users" -> list_users_filt(a)
    [] r = "students" -> list_students_filt(a)
    [] r = "classes" -> list_classes_filt(a)
    [] r = "enrollments" -> list_enrollments_filt(a)
    [] r = "attendance" -> list_attendance_filt(a)
    [] r = "grades" -> list_grades_filt(a)
    [] r = "invoices" -> list_invoices_filt(a)
    [] r = "payments" -> list_payments_filt(a)
    [] r = "announcements" -> list_announcements_filt(a)
    [] r = "resources" -> list_resources_filt(a)
    [] r = "assignments" -> list_assignments_filt(a)
    [] r = "quizzes" -> list_quizzes_filt(a)
    [] r = "quiz_submissions" -> list_quiz_submissions_filt(a)
    [] r = "activity" -> list_activity_filt(a)

list_call_unfiltered(r, filt) ==
  [coll |-> CollectionOf[ListModel[r]], hasFilter |-> FALSE, filter |-> Empty]

\* the get_documents call of each list handler: list_tenants passes the
\* collection only, every other handler passes its filt
list_call(r, filt) ==
  [coll |-> CollectionOf[ListModel[r]], hasFilter |-> r # "tenants", filter |-> filt]


(***************************************************************************)
(* The persistence gateway: database.db, database.create_document and      *)
(* database.get_documents, which main.py imports.  Modelled from the       *)
(* specification (sections 4.2, 5 and 7).                                  *)
(***************************************************************************)
TotalDocs(st) ==
  LET RECURSIVE Sum(_)
      Sum(S) == IF S = {} THEN 0
                ELSE LET c == CHOOSE x \in S : TRUE
                     IN  Cardinality(st[c]) + Sum(S \ {c})
  IN  Sum(DOMAIN st)

AllDocs(st) == UNION {st[c] : c \in DOMAIN st}

Restrict(f, S) == [k \in S |-> f[k]]

\* the store's identifier generator: a value never issued before
NewObjectId(st, nid, coll) == nid

insert_one_torn(st, coll, doc) ==
  [st EXCEPT ![coll] = @ \cup {Restrict(doc, {"_id", "tenant_id"} \cap DOMAIN doc)}]

\* handle.insertOne: one whole document enters the collection
insert_one(st, coll, doc) == [st EXCEPT ![coll] = @ \cup {doc}]

GatewayError(st, nid, e) ==
  [ok |-> FALSE, error |-> e, id |-> "", store |-> st, nextId |-> nid, result |-> {}]

\* createDocument(collection, record) -> id
create_document(dbh, st, nid, coll, model, fail) ==
  IF dbh = "none" THEN GatewayError(st, nid, "StorageUnavailableError")
  ELSE IF fail THEN GatewayError(st, nid, "PersistenceError")
  ELSE LET oid == NewObjectId(st, nid, coll)
           doc == ("_id" :> Oid(oid)) @@ model
       IN  [ok |-> TRUE, error |-> "", id |-> ToString(oid),
            store |-> insert_one(st, coll, doc), nextId |-> nid + 1, result |-> {}]

\* exact-match equality on every key of the filter
matches(doc, filt) ==
  \A k \in DOMAIN filt : k \in DOMAIN doc /\ doc[k] = filt[k]

\* the public shape of a stored document: `_id` becomes the string `id`
public(doc) ==
  ("id" :> Str(doc["_id"].v)) @@ Restrict(doc, DOMAIN doc \ {"_id"})

\* getDocuments(collection, filter) -> records; no filter means the empty one
get_documents(dbh, st, nid, coll, hasFilter, filt, fail) ==
  IF dbh = "none" THEN GatewayError(st, nid, "StorageUnavailableError")
  ELSE IF fail THEN GatewayError(st, nid, "PersistenceError")
  ELSE LET f == IF hasFilter THEN filt ELSE Empty
       IN  [ok |-> TRUE, error |-> "", id |-> "", store |-> st, nextId |-> nid,
            result |-> {public(d) : d \in {x \in st[coll] : matches(x, f)}}]

\* the order in which handle.listCollectionNames reports collections
KindSeq ==
  << "Tenant", "User", "Teacher", "Parent", "Student", "Class", "Enrollment",
     "Attendance", "GradeRecord", "Invoice", "Payment", "Announcement",
     "Notification", "Resource", "Assignment", "Quiz", "QuizSubmission",
     "ActivityLog" >>

\* handle.listCollectionNames: the collections that hold a document
list_collection_names(st) ==
  LET ks == SelectSeq(KindSeq, LAMBDA K : st[CollectionOf[K]] # {})
  IN  [i \in DOMAIN ks |-> CollectionOf[ks[i]]]

(***************************************************************************)
(* Handlers of src/main.py.                                                *)
(***************************************************************************)
Take(s, n) == SubSeq(s, 1, IF Len(s) < n THEN Len(s) ELSE n)

\* collections[:20]
CollectionsSample == 20

\* str(e)[:50]
ErrorChars == 50

read_root == [message |-> "EDmin Backend is running"]

test_database_optimistic(dbh, st, attrRaises, listRaises, msg, urlSet, nameSet) ==
  [ backend |-> "Running",
    database |-> IF dbh # "none" THEN "Connected & Working"
                 ELSE "Available but not initialized",
    detail |-> << >>,
    database_url |-> IF urlSet THEN "Set" ELSE "Not Set",
    database_name |-> IF nameSet THEN "Set" ELSE "Not Set",
    connection_status |-> IF dbh # "none" THEN "Connected" ELSE "Not Connected",
    collections |-> << >> ]

\* GET /test.  attrRaises: the reads of db at lines 43-46 raise; listRaises:
\* db.list_collection_names() raises; msg: the text of the exception.
test_database(dbh, st, attrRaises, listRaises, msg, urlSet, nameSet) ==
  LET response == [ backend |-> "Running", database |-> "Not Available",
                    detail |-> << >>, database_url |-> "None",
                    database_name |-> "None",
                    connection_status |-> "Not Connected", collections |-> << >> ]
      tried ==
        IF dbh # "none"
        THEN IF attrRaises
             THEN [response EXCEPT !.database = "Error",
                                   !.detail = Take(msg, ErrorChars),
                                   !.database_url = "Configured"]
             ELSE IF listRaises
             THEN [response EXCEPT !.database = "Connected but Error",
                                   !.detail = Take(msg, ErrorChars),
                                   !.database_url = "Configured",
                                   !.database_name = "Connected",
                                   !.connection_status = "Connected"]
             ELSE [response EXCEPT !.database = "Connected & Working",
                                   !.database_url = "Configured",
                                   !.database_name = "Connected",
                                   !.connection_status = "Connected",
                                   !.collections =
                                      Take(list_collection_names(st), CollectionsSample)]
        ELSE [response EXCEPT !.database = "Available but not initialized"]
  IN  [tried EXCEPT !.database_url = IF urlSet THEN "Set" ELSE "Not Set",
                    !.database_name = IF nameSet THEN "Set" ELSE "Not Set"]

\* GET /schema: one key per imported model class
get_schema ==
  { <<"t","e","n","a","n","t">>, <<"u","s","e","r">>,
    <<"t","e","a","c","h","e","r">>, <<"p","a","r","e","n","t">>,
    <<"s","t","u","d","e","n","t">>, <<"c","l","a","s","s">>,
    <<"e","n","r","o","l","l","m","e","n","t">>,
    <<"a","t","t","e","n","d","a","n","c","e">>,
    <<"g","r","a","d","e","r","e","c","o","r","d">>,
    <<"i","n","v","o","i","c","e">>, <<"p","a","y","m","e","n","t">>,
    <<"a","n","n","o","u","n","c","e","m","e","n","t">>,
    <<"n","o","t","i","f","i","c","a","t","i","o","n">>,
    <<"r","e","s","o","u","r","c","e">>,
    <<"a","s","s","i","g","n","m","e","n","t">>, <<"q","u","i","z">>,
    <<"q","u","i","z","s","u","b","m","i","s","s","i","o","n">>,
    <<"a","c","t","i","v","i","t","y","l","o","g">> }

\* what a request leaves behind: the request, the gateway call it made and
\* the response
NoRequest ==
  [ op |-> "none", route |-> "", req |-> Empty, status |-> 0, error |-> "",
    errors |-> {}, id |-> "", gw |-> "none", coll |-> << >>, hasFilter |-> FALSE,
    arg |-> Empty, built |-> Empty, result |-> {}, body |-> Empty ]

create_handler_echo(dbh, st, nid, r, model, fail) ==
  LET out == create_document(dbh, st, nid, CollectionOf[CreateModel[r]], model, fail)
      key == IF "tenant_id" \in DOMAIN model THEN "tenant_id" ELSE "name"
  IN  [ store |-> out.store, nextId |-> out.nextId,
        resp |-> [NoRequest EXCEPT !.op = "create", !.route = r,
                    !.status = IF out.ok THEN 200 ELSE 500,
                    !.error = out.error,
                    !.id = IF out.ok THEN model[key].v ELSE "",
                    !.gw = "create",
                    !.coll = CollectionOf[CreateModel[r]], !.arg = model] ]

\* the body of a create handler (create_tenant ... track_activity):
\*   _id = create_document(collection_name(M), payload); return {"id": _id}
create_handler(dbh, st, nid, r, model, fail) ==
  LET out == create_document(dbh, st, nid, CollectionOf[CreateModel[r]], model, fail)
  IN  [ store |-> out.store, nextId |-> out.nextId,
        resp |-> [NoRequest EXCEPT !.op = "create", !.route = r,
                    !.status = IF out.ok THEN 200 ELSE 500,
                    !.error = out.error, !.id = out.id, !.gw = "create",
                    !.coll = CollectionOf[CreateModel[r]], !.arg = model] ]

\* a create request: FastAPI validates the body against the handler's
\* payload model and answers 422 without running the handler when it fails
create_request(dbh, st, nid, r, body, fail) ==
  LET v == validate(PayloadModel[r], body)
  IN  IF v.ok
      THEN LET h == create_handler(dbh, st, nid, r, v.model, fail)
           IN  [h EXCEPT !.resp.req = body]
      ELSE [ store |-> st, nextId |-> nid,
             resp |-> [NoRequest EXCEPT !.op = "create", !.route = r, !.req = body,
                         !.status = 422, !.error = "ValidationError",
                         !.errors = v.errors] ]

list_request_audited(dbh, st, nid, r, q, fail) ==
  LET filt == build_filter(r, BindArgs(r, q))
      call == list_call(r, filt)
      out == get_documents(dbh, st, nid, call.coll, call.hasFilter, call.filter, fail)
      log == create_document(dbh, st, nid, CollectionOf["ActivityLog"],
                             validate("ActivityLog",
                                      [tenant_id |-> Str("a"), action |-> Str("list"),
                                       entity |-> Str(r)]).model, fail)
  IN  [ store |-> IF TotalDocs(st) < MaxDocs THEN log.store ELSE st,
        nextId |-> IF TotalDocs(st) < MaxDocs THEN log.nextId ELSE nid,
        resp |-> [NoRequest EXCEPT !.op = "list", !.route = r, !.req = q,
                    !.status = IF out.ok THEN 200 ELSE 500,
                    !.error = out.error, !.gw = "list", !.coll = call.coll,
                    !.hasFilter = call.hasFilter, !.arg = call.filter,
                    !.built = filt, !.result = out.result] ]

\* a list request (list_tenants ... list_activity): bind the query
\* parameters, build filt, return get_documents(collection_name(M), filt)
list_request(dbh, st, nid, r, q, fail) ==
  LET filt == build_filter(r, BindArgs(r, q))
      call == list_call(r, filt)
      out == get_documents(dbh, st, nid, call.coll, call.hasFilter, call.filter, fail)
  IN  [ store |-> out.store, nextId |-> out.nextId,
        resp |-> [NoRequest EXCEPT !.op = "list", !.route = r, !.req = q,
                    !.status = IF out.ok THEN 200 ELSE 500,
                    !.error = out.error, !.gw = "list", !.coll = call.coll,
                    !.hasFilter = call.hasFilter, !.arg = call.filter,
                    !.built = filt, !.result = out.result] ]


(***************************************************************************)
(* Requests the clients send.                                              *)
(***************************************************************************)
RoutedKinds == {PayloadModel[r] : r \in Routes}

\* the fields of a kind that some list handler of the kind can filter on
Filterable ==
  [K \in RoutedKinds |->
     FieldNames[K] \cap UNION {AllowList[r] : r \in {x \in Routes : PayloadModel[x] = K}}]

SampleRaw(f) ==
  CASE f.type = "str" -> Str("a")
    [] f.type = "email" -> Str("a@x.io")
    [] f.type = "date" -> Str("2024-01-01")
    [] f.type = "datetime" -> Str("2024-01-01T00:00:00")
    [] f.type = "float" -> Num("1")
    [] f.type = "bool" -> Bool("true")
    [] f.type = "list" -> List("")
    [] f.type = "dict" -> Dict("")

OtherRaw(f) ==
  CASE f.type = "date" -> Str("2024-01-02")
    [] OTHER -> Str("b")

Baseline(K) ==
  [n \in RequiredFields[K] \cup Filterable[K] |-> SampleRaw(FieldOf(K, n))]

\* Request bodies: a complete one; one differing in a single filterable
\* field; one with tenant_id empty; one lacking a single field; one with a
\* field of the wrong type; one with a field the model does not declare.
Bodies ==
  [K \in RoutedKinds |->
     LET b == Baseline(K)
         first == IF "tenant_id" \in DOMAIN b THEN "tenant_id" ELSE "name"
     IN  {b}
         \cup {[b EXCEPT ![n] = OtherRaw(FieldOf(K, n))] : n \in Filterable[K]}
         \cup {Restrict(b, DOMAIN b \ {n}) : n \in DOMAIN b}
         \cup {[b EXCEPT ![first] = Num("1")]}
         \cup {[b EXCEPT ![n] = Str("")] : n \in DOMAIN b \cap {"tenant_id"}}
         \cup {("nickname" :> Str("x")) @@ b}]

\* a query parameter no list handler of the route declares
ExtraParam(r) == IF "status" \in AllowList[r] THEN "term" ELSE "status"

QueryValues(p) == IF p = "date" THEN {"", "2024-01-01"} ELSE {"", "a"}

RECURSIVE Assignments(_)
\* every query string over a set of parameters: each absent, empty or set
Assignments(P) ==
  IF P = {} THEN {Empty}
  ELSE LET p == CHOOSE x \in P : TRUE
           rest == Assignments(P \ {p})
       IN  rest \cup {(p :> x) @@ q : x \in QueryValues(p), q \in rest}

\* the query strings sent to a route: every assignment of its declared
\* parameters, and those with at most two of them beside an undeclared one
Queries ==
  [r \in Routes |->
     LET declared == Assignments(AllowList[r])
     IN  declared \cup {(ExtraParam(r) :> "a") @@ q :
                          q \in {x \in declared : Cardinality(DOMAIN x) <= 2}}]

\* texts of the exceptions the store client raises
ErrorTexts ==
  { <<"t","i","m","e","o","u","t">>,
    [i \in 1..(ErrorChars + 10) |-> "x"] }

(***************************************************************************)
(* The service with one client: each request is handled whole, and the     *)
(* client reads the response before it sends the next request.             *)
(***************************************************************************)
Workers == {"w1", "w2"}

Idle == [pc |-> "idle", overlapped |-> FALSE, resp |-> NoRequest]

EmptyStore == [c \in Collections |-> {}]

\* a client works with one entity's route pair and with /tenants
ActiveRoutes == {focus, "tenants"}

Init ==
  /\ focus \in Routes
  /\ db \in {"handle", "none"}
  /\ store = EmptyStore
  /\ nextId = 1
  /\ issued = << >>
  /\ last = NoRequest
  /\ workers = [w \in Workers |-> Idle]

Finish(o) ==
  /\ store' = o.store
  /\ nextId' = o.nextId
  /\ last' = o.resp
  /\ issued' = IF o.resp.op = "create" /\ o.resp.status = 200
               THEN Append(issued, o.resp.id) ELSE issued
  /\ UNCHANGED <<focus, db, workers>>

\* POST /<route>
CreateRequest(r, body, fail) ==
  /\ last.op = "none"
  /\ LET o == create_request(db, store, nextId, r, body, fail)
     IN  /\ o.resp.status = 200 => TotalDocs(store) < MaxDocs
         /\ Finish(o)

\* GET /<route>?<q>
ListRequest(r, q, fail) ==
  /\ last.op = "none"
  /\ Finish(list_request(db, store, nextId, r, q, fail))

\* the same GET sent again right after its response
RepeatList(fail) ==
  /\ last.op = "list"
  /\ Finish(list_request(db, store, nextId, last.route, last.req, fail))

\* GET /
ReadRoot ==
  /\ last.op = "none"
  /\ last' = [NoRequest EXCEPT !.op = "root", !.status = 200, !.body = read_root]
  /\ UNCHANGED <<focus, db, store, nextId, issued, workers>>

\* GET /test
TestDatabase(attrRaises, listRaises, msg, urlSet, nameSet) ==
  /\ last.op = "none"
  /\ last' = [NoRequest EXCEPT !.op = "test", !.status = 200,
                !.req = [attrRaises |-> attrRaises, listRaises |-> listRaises],
                !.body = test_database(db, store, attrRaises, listRaises, msg,
                                       urlSet, nameSet)]
  /\ UNCHANGED <<focus, db, store, nextId, issued, workers>>

\* GET /schema
GetSchema ==
  /\ last.op = "none"
  /\ last' = [NoRequest EXCEPT !.op = "schema", !.status = 200,
                !.body = [keys |-> get_schema]]
  /\ UNCHANGED <<focus, db, store, nextId, issued, workers>>

\* the client reads the response
Deliver ==
  /\ last.op # "none"
  /\ last' = NoRequest
  /\ UNCHANGED <<focus, db, store, nextId, issued, workers>>

Next ==
  \/ \E r \in ActiveRoutes, fail \in BOOLEAN :
       \E body \in Bodies[PayloadModel[r]] : CreateRequest(r, body, fail)
  \/ \E r \in ActiveRoutes, fail \in BOOLEAN :
       \E q \in Queries[r] : ListRequest(r, q, fail)
  \/ \E fail \in BOOLEAN : RepeatList(fail)
  \/ ReadRoot
  \/ \E attrRaises, listRaises, urlSet, nameSet \in BOOLEAN :
       \E msg \in ErrorTexts :
         TestDatabase(attrRaises, listRaises, msg, urlSet, nameSet)
  \/ GetSchema
  \/ Deliver

Spec == Init /\ [][Next]_vars


(***************************************************************************)
(* The service with concurrent requests.  The host runtime runs handlers   *)
(* of different requests side by side; a handler touches the store in one  *)
(* gateway call.  Each worker accepts one request and later completes it.  *)
(***************************************************************************)
\* request bodies and query strings the concurrent clients send
ConcBodies ==
  [K \in RoutedKinds |->
     LET b == Baseline(K)
     IN  {b} \cup {[b EXCEPT ![n] = OtherRaw(FieldOf(K, n))] :
                     n \in Filterable[K] \cap {"tenant_id"}}
             \cup {Restrict(b, DOMAIN b \ {n}) : n \in DOMAIN b \cap {"tenant_id", "name"}}]

ConcQueries ==
  [r \in Routes |-> {q \in Assignments(AllowList[r]) :
                       Cardinality(DOMAIN q) <= 1 /\ \A p \in DOMAIN q : q[p] # ""}]

RECURSIVE Prefill(_, _, _)
\* the state after n earlier creates of the focus route's baseline body
Prefill(dbh, r, n) ==
  IF n = 0 THEN [store |-> EmptyStore, nextId |-> 1, issued |-> << >>]
  ELSE LET before == Prefill(dbh, r, n - 1)
           o == create_request(dbh, before.store, before.nextId, r,
                               Baseline(PayloadModel[r]), FALSE)
       IN  [store |-> o.store, nextId |-> o.nextId,
            issued |-> IF o.resp.status = 200 THEN Append(before.issued, o.resp.id)
                       ELSE before.issued]

InitConc ==
  /\ focus \in Routes
  /\ db \in {"handle", "none"}
  /\ \E n \in 0..MaxPre :
       LET pre == Prefill(db, focus, n)
       IN  store = pre.store /\ nextId = pre.nextId /\ issued = pre.issued
  /\ last = NoRequest
  /\ workers = [w \in Workers |-> Idle]

\* a worker takes a request off the wire; requests in flight together are
\* marked as overlapping
Accept(w, op, r, req) ==
  /\ workers[w].pc = "idle"
  /\ LET others == {x \in Workers \ {w} : workers[x].pc = "accepted"}
     IN  workers' =
           [x \in Workers |->
              IF x = w
              THEN [pc |-> "accepted", overlapped |-> others # {},
                    resp |-> [NoRequest EXCEPT !.op = op, !.route = r, !.req = req]]
              ELSE IF x \in others THEN [workers[x] EXCEPT !.overlapped = TRUE]
              ELSE workers[x]]
  /\ UNCHANGED <<focus, db, store, nextId, issued, last>>

\* the worker runs the handler: validation, the one gateway call, the response
Complete(w, fail) ==
  /\ workers[w].pc = "accepted"
  /\ LET rq == workers[w].resp
         o == IF rq.op = "create"
              THEN create_request(db, store, nextId, rq.route, rq.req, fail)
              ELSE list_request(db, store, nextId, rq.route, rq.req, fail)
     IN  /\ store' = o.store
         /\ nextId' = o.nextId
         /\ issued' = IF o.resp.op = "create" /\ o.resp.status = 200
                      THEN Append(issued, o.resp.id) ELSE issued
         /\ workers' = [workers EXCEPT ![w].pc = "done", ![w].resp = o.resp]
  /\ UNCHANGED <<focus, db, last>>

NextConc ==
  \/ \E w \in Workers, r \in ActiveRoutes :
       \E body \in ConcBodies[PayloadModel[r]] : Accept(w, "create", r, body)
  \/ \E w \in Workers, r \in ActiveRoutes :
       \E q \in ConcQueries[r] : Accept(w, "list", r, q)
  \/ \E w \in Workers, fail \in BOOLEAN : Complete(w, fail)

SpecConc == InitConc /\ [][NextConc]_vars


(***************************************************************************)
(* Properties.                                                             *)
(***************************************************************************)
Fields(rec) == Restrict(rec, DOMAIN rec \ {"id", "_id"})

Range(f) == {f[i] : i \in DOMAIN f}

\* the records GET /<route> with no query parameter returns in a store
ListAll(st, r) == list_request("handle", st, 1, r, Empty, FALSE).resp.result

\* a create request (sent by the one client) was answered in this step
CreateAnswered == last.op = "none" /\ last'.op = "create"

\* the collection a route's entity kind names
Named(r) == CollectionOf[PayloadModel[r]]

\* C1: a successful create of a valid payload P on a route, followed by a
\* list of the same route with the empty filter, yields a record whose
\* fields equal P and whose id is the id the create returned, and no record
\* of the collection had that id before the create.
C1_CreateThenListAll ==
  [][ (CreateAnswered /\ last'.status = 200) =>
        /\ \E rec \in ListAll(store', last'.route) :
             rec["id"] = Str(last'.id) /\ Fields(rec) = last'.arg
        /\ \A rec \in ListAll(store, last'.route) : rec["id"] # Str(last'.id) ]_vars

C1_Witness ==
  /\ last.op = "create" /\ last.status = 200 /\ last.route = "grades"
  /\ Cardinality(store[Named("grades")]) >= 2

\* C2: every record a list endpoint returns equals, on every key of the
\* filter the endpoint built from its query parameters, the filter's value.
C2_ExactMatch ==
  (last.op = "list" /\ last.status = 200) =>
    \A rec \in last.result : \A k \in DOMAIN last.built :
      k \in DOMAIN rec /\ rec[k] = last.built[k]

C2_Witness ==
  /\ last.op = "list" /\ last.status = 200
  /\ Cardinality(DOMAIN last.built) >= 2
  /\ last.result # {}
  /\ Cardinality(last.result) < Cardinality(store[last.coll])

\* the text a client writes in a query string for a stored field value
QueryText(x) == x.v

\* C3: after a successful POST of a record whose field f (a query parameter
\* of the route's list endpoint) has value v, GET of the route with f=v and
\* no other parameter returns that record with the id the POST returned.
C3_FilterFindsCreated ==
  (last.op = "create" /\ last.status = 200) =>
    \A f \in AllowList[last.route] :
      last.arg[f] # None =>
        \E rec \in list_request(db, store, nextId, last.route,
                                (f :> QueryText(last.arg[f])), FALSE).resp.result :
          rec["id"] = Str(last.id)

\* C4: a create request whose body lacks a required field of its kind is
\* answered with a ValidationError naming the field, no gateway call is
\* made, and the store is as it was.
C4_MissingRequiredRejected ==
  [][ (CreateAnswered /\
       RequiredFields[PayloadModel[last'.route]] \ DOMAIN last'.req # {}) =>
        /\ last'.status = 422 /\ last'.error = "ValidationError"
        /\ RequiredFields[PayloadModel[last'.route]] \ DOMAIN last'.req
             \subseteq last'.errors
        /\ last'.gw = "none"
        /\ store' = store /\ nextId' = nextId ]_vars

C4_Witness ==
  /\ last.op = "create" /\ last.status = 422
  /\ "date" \in RequiredFields[PayloadModel[last.route]] \ DOMAIN last.req
  /\ TotalDocs(store) >= 1

\* C5: a create that reaches the gateway either returns an id and adds
\* exactly one document to the collection its kind names, every other
\* collection unchanged, or fails (StorageUnavailableError exactly when there
\* is no store handle, else PersistenceError) with every collection
\* unchanged; without a handle every gateway create and every list fails
\* with StorageUnavailableError.
C5_AllOrNothing ==
  [][ /\ (CreateAnswered /\ last'.gw = "create") =>
           \/ /\ last'.status = 200 /\ last'.id # "" /\ db = "handle"
              /\ store[Named(last'.route)] \subseteq store'[Named(last'.route)]
              /\ Cardinality(store'[Named(last'.route)]) =
                   Cardinality(store[Named(last'.route)]) + 1
              /\ \A c \in Collections \ {Named(last'.route)} : store'[c] = store[c]
           \/ /\ last'.status = 500 /\ last'.id = ""
              /\ last'.error = IF db = "none" THEN "StorageUnavailableError"
                               ELSE "PersistenceError"
              /\ store' = store
      /\ (db = "none" /\ last'.gw \in {"create", "list"}) =>
           /\ last'.status = 500 /\ last'.error = "StorageUnavailableError"
           /\ store' = store ]_vars

C5_Witness ==
  /\ last.op = "create" /\ last.status = 500 /\ last.error = "PersistenceError"
  /\ TotalDocs(store) >= 1

\* C6: GET /test always answers 200 with a diagnostic object; its database
\* field is "Connected & Working" exactly when a handle exists and reading
\* it and listing the collection names raised nothing, and otherwise names
\* an unavailable or error state, with the error text cut to 50 characters.
C6_TestNeverFails ==
  last.op = "test" =>
    /\ last.status = 200
    /\ last.body.database = "Connected & Working"
         <=> (db = "handle" /\ ~last.req.attrRaises /\ ~last.req.listRaises)
    /\ last.body.database \in
         {"Connected & Working", "Available but not initialized",
          "Connected but Error", "Error"}
    /\ db = "none" => last.body.database = "Available but not initialized"
    /\ Len(last.body.detail) <= ErrorChars

C6_Witness ==
  /\ last.op = "test" /\ db = "handle" /\ last.req.listRaises
  /\ last.body.database = "Connected but Error"
  /\ Len(last.body.detail) = ErrorChars

C8_NoMutation ==
  [][ /\ \A c \in Collections : store[c] \subseteq store'[c]
      /\ last'.op \in {"none", "list", "root", "test", "schema"} => store' = store
      /\ (/\ last.op = "list" /\ last'.op = "list"
          /\ last.status = 200 /\ last'.status = 200) => last'.result = last.result
    ]_vars

C8_Witness ==
  /\ last.op = "list" /\ last.status = 200 /\ last.route = "activity"
  /\ Cardinality(last.result) >= 2

\* a worker's successful create and its successful list
CreatedBy(w) ==
  workers[w].pc = "done" /\ workers[w].resp.op = "create" /\ workers[w].resp.status = 200

ListedBy(w) ==
  workers[w].pc = "done" /\ workers[w].resp.op = "list" /\ workers[w].resp.status = 200

\* C9: of two concurrent successful creates both documents are stored,
\* whole, under distinct ids; a list concurrent with a create returns whole
\* documents only, and returns the matching documents of the collection
\* with or without the one the concurrent create added.
C9_SingleDocumentAtomic ==
  /\ \A w \in Workers : CreatedBy(w) =>
       /\ \E d \in store[Named(workers[w].resp.route)] :
            d["_id"].v = workers[w].resp.id /\ Fields(d) = workers[w].resp.arg
       /\ \A x \in Workers \ {w} : CreatedBy(x) => workers[x].resp.id # workers[w].resp.id
  /\ \A w \in Workers : ListedBy(w) =>
       LET r == workers[w].resp.route
           now == {public(d) : d \in {x \in store[Named(r)] : matches(x, workers[w].resp.built)}}
           theirs == {Str(workers[x].resp.id) : x \in {y \in Workers \ {w} : CreatedBy(y)}}
       IN  /\ \A rec \in workers[w].resp.result :
                DOMAIN rec = FieldNames[PayloadModel[r]] \cup {"id"}
           /\ workers[w].resp.result \subseteq now
           /\ \A rec \in now \ workers[w].resp.result : rec["id"] \in theirs

C9_Witness ==
  \E w, x \in Workers :
    /\ CreatedBy(w) /\ ListedBy(x) /\ workers[w].overlapped /\ workers[x].overlapped
    /\ workers[w].resp.route = workers[x].resp.route
    /\ workers[x].resp.result # {}
    /\ \A rec \in workers[x].resp.result : rec["id"] # Str(workers[w].resp.id)
    /\ \E d \in store[Named(workers[w].resp.route)] :
         d["_id"].v = workers[w].resp.id /\ matches(d, workers[x].resp.built)

\* C10: the filter a list endpoint hands to get_documents has a key for
\* exactly the declared query parameters supplied with a non-empty value,
\* each mapped to that value; GET /tenants passes no filter.
C10_FilterKeys ==
  last.op = "list" =>
    LET supplied == {p \in AllowList[last.route] \cap DOMAIN last.req : last.req[p] # ""}
    IN  /\ last.gw = "list"
        /\ DOMAIN last.arg = supplied
        /\ \A p \in supplied : last.arg[p] = Str(last.req[p])
        /\ last.hasFilter <=> last.route # "tenants"

C10_Witness ==
  /\ last.op = "list"
  /\ \E p \in AllowList[last.route] \cap DOMAIN last.req : last.req[p] = ""
  /\ \E p \in DOMAIN last.req : p \notin AllowList[last.route]
  /\ DOMAIN last.arg # {}

=============================================================================
